---------------------------- MODULE Spec2Model ----------------------------
(***************************************************************************)
(* Model of tools/libmetaflask.py: the record parser read_mime, the        *)
(* entity classes Person / Member / ExtensionStatus / Project and the      *)
(* directory model MetaView with its identity resolver                     *)
(* locate_linked_member.                                                   *)
(*                                                                         *)
(* Text is a sequence of tokens.  The tokens ":", " ", "\t", "\r", "\n"    *)
(* are single characters; every other token is a run of characters that    *)
(* are neither whitespace nor a colon.  A file is its byte content, one    *)
(* such sequence.  The file system is read only: the variables that hold   *)
(* it never change.                                                        *)
(***************************************************************************)
EXTENDS Integers, Sequences, FiniteSets, TLC

VARIABLES
    stream,     \* the byte stream handed to read_mime
    mime,       \* what read_mime made of it
    listing,    \* os.listdir(members): file names, in the order listed
    content,    \* bytes of each file of the members directory
    extra,      \* a file outside the members directory (a link target)
    lead,       \* the project's PROJECT_LEAD directory entry
    opt,        \* the project's other optional entries
    mv,         \* the MetaView object
    sponsor,    \* Member.sponsor cache slots, by member path
    proj,       \* the Project's cached_property slots
    out         \* the last call and what it returned or raised

fs == <<listing, content, extra, lead, opt>>
vars == <<stream, mime, listing, content, extra, lead, opt, mv, sponsor, proj, out>>

-----------------------------------------------------------------------------
(* Bounds *)

MaxBytes == 5
MaxMembers == 2

-----------------------------------------------------------------------------
(* Text helpers: str.strip, str.isspace, str.rstrip('\r\n'), str.lower *)

WS == {" ", "\t", "\r", "\n"}

\* the one element of a singleton set. The({F(x) : x \in {e}}) is F(e) with e
\* evaluated once, however often F uses its parameter
The(S) == CHOOSE x \in S : TRUE

IsBlank(s) == \A i \in 1..Len(s) : s[i] \in WS

\* s with its trailing tokens of chars removed
RStripSet(s, chars) ==
    LET kept == {i \in 1..Len(s) : s[i] \notin chars}
    IN  IF kept = {} THEN <<>>
        ELSE SubSeq(s, 1, CHOOSE i \in kept : \A j \in kept : j <= i)

\* s with its leading tokens of chars removed
LStripSet(s, chars) ==
    LET kept == {i \in 1..Len(s) : s[i] \notin chars}
    IN  IF kept = {} THEN <<>>
        ELSE SubSeq(s, CHOOSE i \in kept : \A j \in kept : i <= j, Len(s))

LowerTok(t) ==
    CASE t = "Sponsor" -> "sponsor"
      [] t = "Name" -> "name"
      [] t = "Approved" -> "approved"
      [] OTHER -> t

Lower(s) == [i \in 1..Len(s) |-> LowerTok(s[i])]

None == [cls |-> "None"]

-----------------------------------------------------------------------------
(* read_mime *)

\* hashlib.sha1(...).hexdigest(): the digest stands for the bytes fed to it
\* (no two byte strings of the model collide)
Sha1(bytes) == [sha1 |-> bytes]

\* f.readline(): the bytes from pos up to and including the next "\n"
LineEnd(f, pos) ==
    IF \E i \in pos..Len(f) : f[i] = "\n"
    THEN CHOOSE i \in pos..Len(f) : f[i] = "\n" /\ \A j \in pos..(i - 1) : f[j] # "\n"
    ELSE Len(f)

RawLine(f, pos) == SubSeq(f, pos, LineEnd(f, pos))

\* _readline's return value for the raw line it read
DecodedLine(raw) == IF IsBlank(raw) THEN <<>> ELSE RStripSet(raw, {"\r", "\n"})

\* _kv_re = ^(.*?)\s*:\s*(.*?)$ matched at the start of a line without "\n"
KvMatch(line) ==
    IF \E i \in 1..Len(line) : line[i] = ":"
    THEN LET c == CHOOSE i \in 1..Len(line) :
                      line[i] = ":" /\ \A j \in 1..(i - 1) : line[j] # ":"
         IN  [matched |-> TRUE,
              key |-> RStripSet(SubSeq(line, 1, c - 1), WS),
              value |-> LStripSet(SubSeq(line, c + 1, Len(line)), WS)]
    ELSE [matched |-> FALSE, key |-> <<>>, value |-> <<>>]

MimeError(name) ==
    [status |-> name, headers |-> <<>>, payload |-> <<>>, checksum |-> Sha1(<<>>)]

\* one pass of the while loop: h holds the bytes the hash has been fed
RECURSIVE read_headers(_, _, _, _)
read_headers(f, pos, headers, h) ==
    LET raw == RawLine(f, pos)
        line == DecodedLine(raw)
        next == pos + Len(raw)
        kv == KvMatch(line)
        last == headers[Len(headers)]
    IN  IF line = <<>>
        THEN LET payload == SubSeq(f, next, Len(f))
             IN  [status |-> "ok", headers |-> headers, payload |-> payload,
                  checksum |-> Sha1((h \o raw) \o payload)]
        ELSE IF kv.matched
        THEN The({read_headers(f, p, hs, hh) :
                     p \in {next}, hs \in {Append(headers, <<kv.key, kv.value>>)},
                     hh \in {h \o raw}})
        ELSE IF line[1] \in WS
        THEN IF headers = <<>>
             THEN MimeError("IndexError")
             ELSE The({read_headers(f, p, hs, hh) :
                          p \in {next},
                          hs \in {[headers EXCEPT ![Len(headers)] =
                                     <<last[1], (last[2] \o <<" ">>) \o Tail(line)>>]},
                          hh \in {h \o raw}})
        ELSE MimeError("ValueError")

\* read_mime without h.update(payload): the digest covers the bytes up to the
\* end of the header section only
read_mime_HeadersOnly(f) ==
    The({IF rec.status # "ok" THEN rec
         ELSE [rec EXCEPT !.checksum = Sha1(SubSeq(f, 1, Len(f) - Len(rec.payload)))] :
         rec \in {read_headers(f, 1, <<>>, <<>>)}})

read_mime(f) == The({read_headers(bytes, 1, <<>>, <<>>) : bytes \in {f}})

\* werkzeug Headers.get(key): the first value whose key equals key, ignoring case
RECURSIVE HeadersGetFrom(_, _, _)
HeadersGetFrom(headers, key, i) ==
    IF i > Len(headers) THEN None
    ELSE IF Lower(headers[i][1]) = Lower(key)
    THEN [cls |-> "str", s |-> headers[i][2]]
    ELSE HeadersGetFrom(headers, key, i + 1)

HeadersGet(headers, key) == HeadersGetFrom(headers, key, 1)

-----------------------------------------------------------------------------
(* The file system the program reads *)

Missing == [kind |-> "missing"]
File(bytes) == [kind |-> "file", data |-> bytes, mode |-> "ok"]
Unreadable(bytes) == [kind |-> "file", data |-> bytes, mode |-> "EACCES"]
Link(path) == [kind |-> "link", target |-> path]
Dir(entries) == [kind |-> "dir", entries |-> entries, mode |-> "ok"]
UnreadableDir == [kind |-> "dir", entries |-> <<>>, mode |-> "EACCES"]

MemberPath(filename) == [dir |-> "members", name |-> filename, idx |-> 0]
OtherPath == [dir |-> "other", name |-> <<"copy">>, idx |-> 0]
ProjectPath(name) == [dir |-> "project", name |-> <<name>>, idx |-> 0]
StewardPath(i) == [dir |-> "stewardship", name |-> <<"entry">>, idx |-> i]

Range(f) == {f[i] : i \in DOMAIN f}

\* the directory entry at path itself (os.lstat): links are not followed
LStat(path) ==
    CASE path.dir = "members" ->
            IF path.name \in Range(listing) THEN File(content[path.name]) ELSE Missing
      [] path.dir = "other" -> extra
      [] path.dir = "project" ->
            IF path.name = <<"PROJECT_LEAD">> THEN lead ELSE opt[path.name[1]]
      [] path.dir = "stewardship" ->
            IF opt["stewardship"].kind = "dir" /\ path.idx \in DOMAIN opt["stewardship"].entries
            THEN opt["stewardship"].entries[path.idx]
            ELSE Missing

\* _normpath: os.path.normpath(os.path.realpath(x)); a link's target is never
\* itself a link here
_normpath(path) ==
    IF LStat(path).kind = "link" THEN LStat(path).target ELSE path

\* open(path, 'rb') and f.read(): links are followed
Open(path) ==
    LET node == LStat(_normpath(path))
    IN  CASE node.kind = "missing" -> [status |-> "IOError", errno |-> "ENOENT", data |-> <<>>]
          [] node.kind = "dir" -> [status |-> "IOError", errno |-> "EISDIR", data |-> <<>>]
          [] node.mode # "ok" -> [status |-> "IOError", errno |-> node.mode, data |-> <<>>]
          [] OTHER -> [status |-> "ok", errno |-> "", data |-> node.data]

\* os.path.exists(path): a stat that follows links
Exists(path) == LStat(_normpath(path)).kind # "missing"

-----------------------------------------------------------------------------
(* Person, Member *)

Ok(v) == [status |-> "ok", value |-> v]
Raise(name) == [status |-> name, value |-> None]

Str(s) == [cls |-> "str", s |-> s]

\* Person.__init__ on an open file whose bytes are data
Person(path, data) ==
    The({IF rec.status # "ok" THEN Raise(rec.status)
         ELSE Ok([cls |-> "Person", path |-> _normpath(path), meta |-> rec.headers,
                  checksum |-> rec.checksum,
                  description |-> RStripSet(rec.payload, WS)]) :
         rec \in {read_mime(data)}})

\* Member.__init__
Member(filename, num, login, data) ==
    The({IF p.status # "ok" THEN p
         ELSE Ok([cls |-> "Member", path |-> p.value.path, meta |-> p.value.meta,
                  checksum |-> p.value.checksum, description |-> p.value.description,
                  num |-> num, login |-> login]) :
         p \in {Person(MemberPath(filename), data)}})

Name(person) == HeadersGet(person.meta, <<"name">>)
Twitter(person) == HeadersGet(person.meta, <<"twitter">>)
Email(person) == HeadersGet(person.meta, <<"e-mail">>)

\* dict.get
Get(index, key) == IF key \in DOMAIN index THEN index[key] ELSE None

\* Member.sponsor without the '<self>' marker among the values that mean
\* "no sponsor"
MemberSponsor_NoMarker(m) ==
    LET s == HeadersGet(m.meta, <<"sponsor">>)
    IN  IF s = None \/ s.s = <<>> THEN None ELSE Get(mv.by_login, s.s)

\* the body of Member.sponsor
MemberSponsor(m) ==
    LET s == HeadersGet(m.meta, <<"sponsor">>)
    IN  IF s = None \/ s.s = <<>> \/ s.s = <<"<self>">>
        THEN None
        ELSE Get(mv.by_login, s.s)

Unset == [set |-> FALSE, value |-> None]
Cached(v) == [set |-> TRUE, value |-> v]

\* cached_property on Member.sponsor: the slot if filled, else the body
SponsorOf(m) == IF sponsor[m.path].set THEN sponsor[m.path].value ELSE MemberSponsor(m)

HasAttr(obj, attr) == attr \in DOMAIN obj

\* Person.to_json: the compact argument is not looked at
PersonToJson(person, compact) ==
    IF ~HasAttr(person, "num") \/ ~HasAttr(person, "login")
    THEN Raise("AttributeError")
    ELSE Ok([num |-> person.num, login |-> person.login, name |-> Name(person),
             twitter |-> Twitter(person), email |-> Email(person),
             description |-> person.description])

CompactJson(m) == [num |-> m.num, login |-> m.login, name |-> Name(m)]

\* Member.to_json
MemberToJson(m, compact) ==
    IF compact THEN Ok(CompactJson(m))
    ELSE LET rv == PersonToJson(m, compact).value
             sp == SponsorOf(m)
         IN  Ok([num |-> rv.num, login |-> rv.login, name |-> rv.name,
                 twitter |-> rv.twitter, email |-> rv.email,
                 description |-> rv.description,
                 sponsor |-> IF sp = None THEN None ELSE CompactJson(sp)])

\* to_json of a Person or a Member (method dispatch)
ToJson(obj, compact) ==
    IF obj.cls = "Member" THEN MemberToJson(obj, compact) ELSE PersonToJson(obj, compact)

-----------------------------------------------------------------------------
(* read_members, MetaView.__init__ *)

Digits4 == {"0001", "0002"}

ParseInt(digits) == CASE digits = "0001" -> 1 [] digits = "0002" -> 2

\* _member_re = ^(\d{4})_(.*?).txt$ on a file name given as its parts
MemberRe(filename) ==
    IF Len(filename) = 4 /\ filename[1] \in Digits4 /\ filename[2] = "_"
           /\ filename[4] = ".txt"
    THEN [matched |-> TRUE, num |-> filename[1], login |-> <<filename[3]>>]
    ELSE [matched |-> FALSE, num |-> "", login |-> <<>>]

\* rv.sort(key=lambda x: x.num): stable, one insertion at a time
RECURSIVE InsertByNum(_, _)
InsertByNum(sorted, m) ==
    IF sorted = <<>> THEN <<m>>
    ELSE IF sorted[Len(sorted)].num <= m.num THEN Append(sorted, m)
    ELSE Append(The({InsertByNum(front, m) :
                        front \in {SubSeq(sorted, 1, Len(sorted) - 1)}}),
                sorted[Len(sorted)])

RECURSIVE SortByNum(_)
SortByNum(rv) ==
    IF rv = <<>> THEN <<>>
    ELSE The({InsertByNum(sorted, rv[Len(rv)]) :
                 sorted \in {SortByNum(SubSeq(rv, 1, Len(rv) - 1))}})

\* the loop of read_members from entry i of the listing on
RECURSIVE read_members_from(_, _)
read_members_from(i, rv) ==
    IF i > Len(listing) THEN Ok(SortByNum(rv))
    ELSE LET filename == listing[i]
             match == MemberRe(filename)
         IN  IF ~match.matched THEN read_members_from(i + 1, rv)
             ELSE The({IF mem.status # "ok" THEN mem
                       ELSE The({read_members_from(i + 1, more) :
                                    more \in {Append(rv, mem.value)}}) :
                       mem \in {Member(filename, ParseInt(match.num), match.login,
                                       content[filename])}})

read_members == read_members_from(1, <<>>)

\* os.listdir(projects) and os.path.isdir of each entry; a name is its
\* characters, a leading "." one of them
ProjectsListing ==
    << [name |-> <<".", "git">>, isdir |-> TRUE],
       [name |-> <<"flask">>, isdir |-> TRUE],
       [name |-> <<"NOTES">>, isdir |-> FALSE] >>

read_projects ==
    {ProjectsListing[i].name : i \in {j \in DOMAIN ProjectsListing :
        ProjectsListing[j].name[1] # "." /\ ProjectsListing[j].isdir}}

EmptyIndex == [k \in {} |-> None]

\* for mem in members: index[mem.<field>] = mem
RECURSIVE FillIndex(_, _, _, _)
FillIndex(index, members, field, i) ==
    IF i > Len(members) THEN index
    ELSE The({FillIndex(filled, members, field, i + 1) :
                 filled \in {(members[i][field] :> members[i]) @@ index}})

Unbuilt ==
    [status |-> "unbuilt", members |-> <<>>, by_num |-> EmptyIndex,
     by_login |-> EmptyIndex, by_checksum |-> EmptyIndex, by_path |-> EmptyIndex,
     projects |-> {}]

\* MetaView.__init__; members is what read_members returned
MetaViewInit ==
    The({IF rm.status # "ok" THEN [Unbuilt EXCEPT !.status = rm.status]
         ELSE The({[status |-> "ok",
                    members |-> members,
                    by_num |-> FillIndex(EmptyIndex, members, "num", 1),
                    by_login |-> FillIndex(EmptyIndex, members, "login", 1),
                    by_checksum |-> FillIndex(EmptyIndex, members, "checksum", 1),
                    by_path |-> FillIndex(EmptyIndex, members, "path", 1),
                    projects |-> read_projects] :
                   members \in {rm.value}}) :
         rm \in {read_members}})

\* sorted(self.members_by_num.items()), values only
RECURSIVE SortedValues(_, _)
SortedValues(index, keys) ==
    IF keys = {} THEN <<>>
    ELSE The({<<index[k]>> \o The({SortedValues(index, rest) : rest \in {keys \ {k}}}) :
                 k \in {CHOOSE x \in keys : \A y \in keys : x <= y}})

iter_members == SortedValues(mv.by_num, DOMAIN mv.by_num)

-----------------------------------------------------------------------------
(* MetaView.locate_linked_member, Project *)

\* locate_linked_member with the tiers swapped: the checksum index is asked
\* first, the path index only when it holds nothing
locate_linked_member_ChecksumFirst(path) ==
    LET node == LStat(path)
        f == Open(_normpath(path))
        byBytes == IF f.status = "ok" THEN Get(mv.by_checksum, Sha1(f.data)) ELSE None
    IN  IF byBytes # None THEN byBytes
        ELSE IF node.kind = "link" THEN Get(mv.by_path, _normpath(node.target))
        ELSE None

\* os.readlink(path) raises OSError unless path is a link; open() raises
\* IOError on a missing or unreadable file; both are passed over
locate_linked_member(path) ==
    LET npath == _normpath(path)
        node == LStat(path)
        rv == IF node.kind = "link" THEN Get(mv.by_path, _normpath(node.target)) ELSE None
        f == Open(npath)
    IN  IF rv # None THEN rv
        ELSE IF f.status = "ok" THEN Get(mv.by_checksum, Sha1(f.data))
        ELSE None

\* the body of Project.meta
ProjectMeta ==
    LET f == Open(ProjectPath("META"))
    IN  IF f.status # "ok"
        THEN IF f.errno # "ENOENT" THEN Raise("IOError") ELSE Ok(<<>>)
        ELSE The({IF rec.status # "ok" THEN Raise(rec.status) ELSE Ok(rec.headers) :
                  rec \in {read_mime(f.data)}})

ReadmeChoices == <<"README.rst", "README.md", "README">>

\* the body of Project.readme, from choice i on
RECURSIVE ProjectReadmeFrom(_)
ProjectReadmeFrom(i) ==
    IF i > Len(ReadmeChoices) THEN Ok(None)
    ELSE LET f == Open(ProjectPath(ReadmeChoices[i]))
         IN  IF f.status = "ok" THEN Ok(Str(RStripSet(f.data, WS)))
             ELSE ProjectReadmeFrom(i + 1)

ProjectReadme == ProjectReadmeFrom(1)

\* the body of Project.extension_status
ProjectExtensionStatus ==
    LET f == Open(ProjectPath("EXTENSION_STATUS"))
    IN  IF f.status # "ok" THEN Ok(None)
        ELSE The({IF rec.status # "ok" THEN Raise(rec.status)
                  ELSE Ok([cls |-> "ExtensionStatus", meta |-> rec.headers]) :
                  rec \in {read_mime(f.data)}})

\* ExtensionStatus.to_json
ExtensionStatusToJson(es) ==
    [is_approved |-> HeadersGet(es.meta, <<"approved">>) = Str(<<"yes">>)]

\* Project.project_lead without the fallback to an inline Person
ProjectLead_NoFallback ==
    LET p == ProjectPath("PROJECT_LEAD")
    IN  IF ~Exists(p) THEN Ok(None) ELSE Ok(locate_linked_member(p))

\* the body of Project.project_lead
ProjectLead ==
    LET p == ProjectPath("PROJECT_LEAD")
        rv == locate_linked_member(p)
        f == Open(p)
    IN  IF ~Exists(p) THEN Ok(None)
        ELSE IF rv # None THEN Ok(rv)
        ELSE IF f.status # "ok" THEN Raise("IOError")
        ELSE Person(p, f.data)

\* the loop of Project.stewards from entry i on
RECURSIVE StewardsFrom(_, _)
StewardsFrom(i, rv) ==
    IF i > Len(opt["stewardship"].entries) THEN rv
    ELSE The({StewardsFrom(i + 1, more) :
                 more \in {The({IF mem # None THEN Append(rv, mem) ELSE rv :
                                mem \in {locate_linked_member(StewardPath(i))}})}})

\* the body of Project.stewards: os.listdir raises OSError on a missing or
\* unreadable directory
ProjectStewards ==
    IF opt["stewardship"].kind # "dir" \/ opt["stewardship"].mode # "ok"
    THEN Ok(<<>>)
    ELSE Ok(StewardsFrom(1, <<>>))

Slots == {"meta", "readme", "extension_status", "project_lead", "stewards"}

Body(slot) ==
    CASE slot = "meta" -> ProjectMeta
      [] slot = "readme" -> ProjectReadme
      [] slot = "extension_status" -> ProjectExtensionStatus
      [] slot = "project_lead" -> ProjectLead
      [] slot = "stewards" -> ProjectStewards

\* cached_property: the slot if filled, else the body
Property(slot) == IF proj[slot].set THEN Ok(proj[slot].value) ELSE Body(slot)

\* the slots after the properties in read were read: a body that raised
\* fills nothing
Filled(read) ==
    [slot \in Slots |->
        IF slot \in read /\ Property(slot).status = "ok"
        THEN Cached(Property(slot).value)
        ELSE proj[slot]]

\* Project.to_json: the dict display reads the properties in this order, and
\* the first exception ends it
ToJsonSteps ==
    LET pl == Property("project_lead")
        es == Property("extension_status")
    IN  << [slot |-> "meta", r |-> Property("meta")],
           [slot |-> "readme", r |-> Property("readme")],
           [slot |-> "extension_status", r |->
               IF es.status # "ok" \/ es.value = None THEN es
               ELSE Ok(ExtensionStatusToJson(es.value))],
           [slot |-> "project_lead", r |-> pl],
           [slot |-> "none", r |->
               IF pl.status # "ok" \/ pl.value = None THEN Ok(None)
               ELSE ToJson(pl.value, TRUE)],
           [slot |-> "stewards", r |->
               LET st == Property("stewards")
               IN  Ok([i \in DOMAIN st.value |-> CompactJson(st.value[i])])] >>

ProjectToJsonFrom(steps) ==
    LET failed == {i \in DOMAIN steps : steps[i].r.status # "ok"}
        first == IF failed = {} THEN Len(steps) + 1
                 ELSE CHOOSE i \in failed : \A j \in failed : i <= j
        read == {steps[i].slot : i \in 1..(first - 1)}
        meta == steps[1].r.value
    IN  [result |->
            IF failed # {} THEN Raise(steps[first].r.status)
            ELSE Ok([short_name |-> <<"flask">>,
                     name |-> HeadersGet(meta, <<"name">>),
                     website |-> HeadersGet(meta, <<"website">>),
                     github |-> HeadersGet(meta, <<"github">>),
                     bugtracker |-> HeadersGet(meta, <<"bugtracker">>),
                     documentation |-> HeadersGet(meta, <<"documentation">>),
                     pypi |-> HeadersGet(meta, <<"pypi">>),
                     license |-> HeadersGet(meta, <<"license">>),
                     status |-> HeadersGet(meta, <<"status">>),
                     readme |-> steps[2].r.value,
                     extension_status |-> steps[3].r.value,
                     is_extension |-> Property("extension_status").value # None,
                     project_lead |-> steps[5].r.value,
                     stewards |-> steps[6].r.value]),
         slots |-> Filled(read)]

ProjectToJson == The({ProjectToJsonFrom(steps) : steps \in {ToJsonSteps}})

-----------------------------------------------------------------------------
(* The operations *)

NoOut == [op |-> "none", arg |-> None, status |-> "ok", value |-> None]

Call(op, arg, r) == [op |-> op, arg |-> arg, status |-> r.status, value |-> r.value]

Built == mv.status = "ok"

\* mv = MetaView(path)
Construct ==
    /\ mv.status = "unbuilt"
    /\ \E view \in {MetaViewInit} :
        /\ mv' = view
        /\ sponsor' = [p \in DOMAIN view.by_path |-> Unset]
        /\ out' = [op |-> "MetaView", arg |-> None, status |-> view.status,
                   value |-> None]
    /\ UNCHANGED <<stream, mime, fs, proj>>

\* m.sponsor, for a Member m of the view
AccessSponsor ==
    /\ Built
    /\ \E m \in Range(mv.members) :
        /\ out' = Call("sponsor", m.path, Ok(SponsorOf(m)))
        /\ sponsor' = [sponsor EXCEPT ![m.path] = Cached(SponsorOf(m))]
    /\ UNCHANGED <<stream, mime, fs, mv, proj>>

\* m.to_json(compact)
MemberJson ==
    /\ Built
    /\ \E m \in Range(mv.members), compact \in BOOLEAN :
        /\ out' = Call("Member.to_json", [path |-> m.path, compact |-> compact],
                       MemberToJson(m, compact))
        /\ sponsor' = IF compact THEN sponsor
                      ELSE [sponsor EXCEPT ![m.path] = Cached(SponsorOf(m))]
    /\ UNCHANGED <<stream, mime, fs, mv, proj>>

\* list(mv.iter_members())
IterMembers ==
    /\ Built
    /\ out' = Call("iter_members", None, Ok(iter_members))
    /\ UNCHANGED <<stream, mime, fs, mv, sponsor, proj>>

\* mv.to_json(): every member's full projection, then every project's
MetaViewJson ==
    /\ Built
    /\ \E members \in {iter_members}, pj \in {ProjectToJson} :
           /\ out' = Call("MetaView.to_json", None,
                  IF pj.result.status # "ok" THEN pj.result
                  ELSE Ok([members |-> [i \in DOMAIN members |->
                                            MemberToJson(members[i], FALSE).value],
                           projects |-> <<pj.result.value>>]))
           /\ sponsor' = [p \in DOMAIN sponsor |->
                            IF \E i \in DOMAIN members : members[i].path = p
                            THEN Cached(SponsorOf(mv.by_path[p]))
                            ELSE sponsor[p]]
           /\ proj' = pj.slots
    /\ UNCHANGED <<stream, mime, fs, mv>>

\* mv.locate_linked_member(path)
Locate ==
    /\ Built
    /\ \E path \in {ProjectPath("PROJECT_LEAD"), StewardPath(1)} :
        out' = Call("locate_linked_member", path, Ok(locate_linked_member(path)))
    /\ UNCHANGED <<stream, mime, fs, mv, sponsor, proj>>

\* reading one cached property of the project
Access(slot) ==
    /\ Built
    /\ out' = Call(slot, None, Property(slot))
    /\ proj' = Filled({slot})
    /\ UNCHANGED <<stream, mime, fs, mv, sponsor>>

AccessMeta == Access("meta")
AccessReadme == Access("readme")
AccessExtensionStatus == Access("extension_status")
AccessProjectLead == Access("project_lead")
AccessStewards == Access("stewards")

\* project.to_json()
ProjectJson ==
    /\ Built
    /\ \E pj \in {ProjectToJson} :
           /\ out' = Call("Project.to_json", None, pj.result)
           /\ proj' = pj.slots
    /\ UNCHANGED <<stream, mime, fs, mv, sponsor>>

-----------------------------------------------------------------------------
(* File contents the trees are built from *)

\* the sequences over S of length at most n
RECURSIVE SeqsUpTo(_, _)
SeqsUpTo(S, n) ==
    IF n = 0 THEN {<<>>}
    ELSE LET shorter == SeqsUpTo(S, n - 1)
         IN  shorter \cup {Append(s, x) : s \in {t \in shorter : Len(t) = n - 1}, x \in S}

\* no stream has been parsed
Unread == [status |-> "unread", headers |-> <<>>, payload |-> <<>>, checksum |-> Sha1(<<>>)]

Ann == <<"Name", ":", " ", "Ann", "\n", "E-mail", ":", " ", "a@x.com", "\n",
         "\n", "Hello.", "\n">>
SponsoredByA == <<"name", ":", "Al", "\n", "Sponsor", ":", " ", "a", "\n">>
SponsorSelf == <<"sponsor", ":", "<self>", "\n", " ", "\n", "Bio", "\n">>
SponsorEmpty == <<"sponsor", ":", "\r", "\n">>
Junk == <<"junk", "\n">>
Indented == <<" ", "junk", "\n">>
Bob == <<"name", ":", "Bob", "\n", " ", "Jr", "\n", "\n", "Hi", "\n">>

A1 == <<"0001", "_", "a", ".txt">>
S1 == <<"0001", "_", "<self>", ".txt">>
A2 == <<"0002", "_", "a", ".txt">>
Readme == <<"README">>

OptionalNames ==
    {"META", "README.rst", "README.md", "README", "EXTENSION_STATUS", "stewardship"}

NoOptional == [n \in OptionalNames |-> Missing]

\* the possible orders of a directory listing of at most n of the names
Listings(names, n) ==
    {l \in SeqsUpTo(names, n) : \A i, j \in DOMAIN l : i # j => l[i] # l[j]}

\* the files of a listing: a member file holds one of memberFiles, any other
\* file one of otherFiles
Contents(l, memberFiles, otherFiles) ==
    {c \in [Range(l) -> memberFiles \cup otherFiles] :
        \A fn \in Range(l) :
            c[fn] \in IF MemberRe(fn).matched THEN memberFiles ELSE otherFiles}

Start ==
    /\ stream = <<>>
    /\ mime = Unread
    /\ mv = Unbuilt
    /\ sponsor = EmptyIndex
    /\ proj = [slot \in Slots |-> Unset]
    /\ out = NoOut

-----------------------------------------------------------------------------
(* The member tree: any listing, one project without files *)

Init ==
    /\ Start
    /\ listing \in Listings({A1, S1, A2, Readme}, MaxMembers)
    /\ content \in Contents(listing,
           {Ann, SponsoredByA, SponsorSelf, SponsorEmpty, Junk, Indented}, {Ann})
    /\ extra = Missing
    /\ lead = Missing
    /\ opt = NoOptional

Next ==
    \/ Construct
    \/ AccessSponsor
    \/ MemberJson
    \/ IterMembers
    \/ MetaViewJson

Spec == Init /\ [][Next]_vars

-----------------------------------------------------------------------------
(* Claims about members, checked under Spec *)

\* the call in out read the sponsor of a member
ReadSponsor ==
    \/ out.op = "sponsor"
    \/ out.op = "Member.to_json" /\ ~out.arg.compact

\* the member that call was made on, its sponsor header, what came back
Subject == mv.by_path[IF out.op = "sponsor" THEN out.arg ELSE out.arg.path]
SponsorHeader == HeadersGet(Subject.meta, <<"sponsor">>)
NoSponsor ==
    IF out.op = "sponsor" THEN out.value = None ELSE out.value.sponsor = None

\* C1 as stated: a member whose sponsor header is absent, empty or equal to
\* its own login has sponsor none, and null in its full JSON projection.
C1_OwnLoginIsNoSponsor ==
    (/\ ReadSponsor
     /\ \/ SponsorHeader = None
        \/ SponsorHeader.s = <<>>
        \/ SponsorHeader.s = Subject.login)
        => NoSponsor

\* C1 amended: a member whose sponsor header is absent, empty or the marker
\* '<self>' has sponsor none, and null in its full JSON projection; a header
\* that names the member's own login is looked up like any other login and
\* yields the Member the by-login index holds for it.
C1_MarkerIsNoSponsor ==
    ReadSponsor =>
        /\ (\/ SponsorHeader = None
            \/ SponsorHeader.s = <<>>
            \/ SponsorHeader.s = <<"<self>">>) => NoSponsor
        /\ (/\ SponsorHeader # None
            /\ SponsorHeader.s = Subject.login
            /\ Subject.login \notin {<<>>, <<"<self>">>})
               => IF out.op = "sponsor"
                  THEN out.value = mv.by_login[Subject.login]
                  ELSE out.value.sponsor = CompactJson(mv.by_login[Subject.login])

\* a member whose header is the marker was asked for its sponsor, while a
\* member with the login '<self>' is indexed
C1_Witness ==
    /\ out.op = "sponsor"
    /\ SponsorHeader = Str(<<"<self>">>)
    /\ <<"<self>">> \in DOMAIN mv.by_login
    /\ out.value = None

\* C4: after construction every constructed Member is the one its num and its
\* login are indexed under, and no two constructed Members share a num or a
\* login.
C4_IndexConsistency ==
    Built =>
        /\ \A i \in DOMAIN mv.members :
            /\ mv.by_num[mv.members[i].num] = mv.members[i]
            /\ mv.by_login[mv.members[i].login] = mv.members[i]
        /\ \A i, j \in DOMAIN mv.members :
            i # j => /\ mv.members[i].num # mv.members[j].num
                     /\ mv.members[i].login # mv.members[j].login

\* C8: iter_members, and the members list of MetaView.to_json, yield every
\* constructed Member exactly once, in strictly ascending num.
C8_IterationComplete ==
    /\ out.op = "iter_members" =>
        /\ \A i \in DOMAIN mv.members :
            Cardinality({k \in DOMAIN out.value : out.value[k] = mv.members[i]}) = 1
        /\ \A k \in 1..(Len(out.value) - 1) : out.value[k].num < out.value[k + 1].num
    /\ (out.op = "MetaView.to_json" /\ out.status = "ok") =>
        /\ Len(out.value.members) = Len(mv.members)
        /\ \A k \in 1..(Len(out.value.members) - 1) :
            out.value.members[k].num < out.value.members[k + 1].num

-----------------------------------------------------------------------------
(* The project's lead reference *)

InitLead ==
    /\ Start
    /\ listing \in Listings({A1, A2, Readme}, MaxMembers)
    /\ content \in Contents(listing, {Ann, SponsorSelf}, {Ann, Bob})
    /\ \E target \in {Missing, File(Ann), File(Bob), File(Junk)} :
       \/ /\ extra = Missing
          /\ target = Missing
          /\ lead \in {Missing, Unreadable(Ann)}
                      \cup {File(c) : c \in {Ann, SponsorSelf, Bob, Junk, Indented}}
                      \cup {Link(MemberPath(fn)) : fn \in {A1, A2, Readme}}
       \/ /\ extra = target
          /\ lead = Link(OtherPath)
    /\ opt = NoOptional

NextLead ==
    \/ Construct
    \/ Locate
    \/ AccessProjectLead
    \/ ProjectJson

SpecLead == InitLead /\ [][NextLead]_vars

-----------------------------------------------------------------------------
(* Claims about the lead reference and the resolver, checked under SpecLead *)

LeadPath == ProjectPath("PROJECT_LEAD")

\* the file names of the listing that _member_re matches
MemberFiles == {fn \in Range(listing) : MemberRe(fn).matched}

\* the bytes open() reads at the lead reference, links followed
LeadBytes == Open(LeadPath).data

\* C2: Project.to_json completes without error, and its project_lead is null
\* or a compact projection (num, login, name), whichever kind of lead was
\* resolved, a Member or an inline Person.
C2_LeadProjectionCompact ==
    (out.op = "Project.to_json" /\ ProjectLead.status = "ok") =>
        /\ out.status = "ok"
        /\ \/ out.value.project_lead = None
           \/ DOMAIN out.value.project_lead = {"num", "login", "name"}

\* the three cases of C3 that do not depend on the lead file being a record
C3_NoEntryAndLinkCases ==
    /\ lead = Missing => (out.status = "ok" /\ out.value = None)
    /\ (/\ lead.kind = "link"
        /\ lead.target \notin DOMAIN mv.by_path
        /\ Open(LeadPath).status = "ok"
        /\ \E fn \in MemberFiles : content[fn] = LeadBytes)
           => /\ out.status = "ok"
              /\ out.value.cls = "Member"
              /\ content[out.value.path.name] = LeadBytes

\* a PROJECT_LEAD that exists, is no link, and whose checksum no Member has
C3_PlainUnmatched ==
    /\ lead.kind = "file"
    /\ lead.mode = "ok"
    /\ Sha1(lead.data) \notin DOMAIN mv.by_checksum

\* C3 as stated: without a PROJECT_LEAD entry the lead is null; a link the
\* path index does not resolve, to content equal to a member file's, gives a
\* Member with that content; a plain file whose checksum matches no Member
\* gives an inline Person.
C3_LeadOutcomes ==
    out.op = "project_lead" =>
        /\ C3_NoEntryAndLinkCases
        /\ C3_PlainUnmatched => (out.status = "ok" /\ out.value.cls = "Person")

\* C3 amended: as stated, except that the plain unmatched file gives an
\* inline Person when read_mime parses it, and otherwise the access fails
\* with the error read_mime raised.
C3_LeadOutcomesParsed ==
    out.op = "project_lead" =>
        /\ C3_NoEntryAndLinkCases
        /\ C3_PlainUnmatched =>
              IF read_mime(lead.data).status = "ok"
              THEN out.status = "ok" /\ out.value.cls = "Person"
              ELSE out.status = read_mime(lead.data).status

\* the lead was read from a plain file that matches no Member, next to a
\* member file, and is an inline Person
C3_Witness ==
    /\ out.op = "project_lead"
    /\ C3_PlainUnmatched
    /\ MemberFiles # {}
    /\ out.status = "ok"
    /\ out.value.cls = "Person"

\* C9: the checksum of every Member is the digest of its whole file, so a
\* plain file with the bytes of a member file resolves to a Member with
\* those bytes, the same Member the member file itself resolves to.
C9_ChecksumIsWholeFileDigest ==
    /\ Built =>
        \A i \in DOMAIN mv.members :
            mv.members[i].checksum = Sha1(content[mv.members[i].path.name])
    /\ (/\ out.op = "locate_linked_member"
        /\ LStat(out.arg).kind = "file"
        /\ LStat(out.arg).mode = "ok"
        /\ \E fn \in MemberFiles : content[fn] = LStat(out.arg).data)
           => /\ out.value.cls = "Member"
              /\ content[out.value.path.name] = LStat(out.arg).data
              /\ \A fn \in MemberFiles :
                    content[fn] = LStat(out.arg).data =>
                        locate_linked_member(MemberPath(fn)) = out.value

\* a plain lead file with a body after its headers, byte-identical to two
\* member files, was resolved to a Member
C9_Witness ==
    /\ out.op = "locate_linked_member"
    /\ out.arg = LeadPath
    /\ lead.kind = "file"
    /\ lead.mode = "ok"
    /\ read_mime(lead.data).payload # <<>>
    /\ Cardinality({fn \in MemberFiles : content[fn] = lead.data}) = 2
    /\ out.value.cls = "Member"

\* C10: locate_linked_member never raises; a link whose target is a key of
\* the path index gives the Member at that key; otherwise the Member the
\* checksum index holds for the digest of the file's bytes, if the file can
\* be read and the index has one; otherwise none.  What it gives is none or
\* a constructed Member.
C10_TwoTierLookup ==
    out.op = "locate_linked_member" =>
        LET node == LStat(out.arg)
            f == Open(out.arg)
        IN  /\ out.status = "ok"
            /\ IF node.kind = "link" /\ node.target \in DOMAIN mv.by_path
               THEN out.value = mv.by_path[node.target]
               ELSE IF f.status = "ok" /\ Sha1(f.data) \in DOMAIN mv.by_checksum
               THEN out.value = mv.by_checksum[Sha1(f.data)]
               ELSE out.value = None
            /\ out.value # None => out.value \in Range(mv.members)

\* a link to an indexed member file was resolved by its path while the
\* checksum index holds another Member for the same bytes
C10_Witness ==
    /\ out.op = "locate_linked_member"
    /\ out.arg = LeadPath
    /\ lead.kind = "link"
    /\ lead.target \in DOMAIN mv.by_path
    /\ out.value = mv.by_path[lead.target]
    /\ mv.by_checksum[Sha1(LeadBytes)] # out.value

-----------------------------------------------------------------------------
(* The project's optional files *)

Meta == <<"name", ":", "Flask", "\n">>
Approved == <<"Approved", ":", " ", "yes", "\n">>
Text == <<"Flask", "\n", "\n">>

InitOpt ==
    /\ Start
    /\ listing = <<A1>>
    /\ content = [fn \in {A1} |-> Ann]
    /\ extra = Missing
    /\ lead \in {Missing, Unreadable(Ann)}
    /\ opt \in {o \in [OptionalNames ->
                    {Missing, Unreadable(Text), UnreadableDir, File(Meta), File(Junk),
                     File(Approved), File(Text),
                     Dir(<<Link(MemberPath(A1)), Unreadable(Ann), File(Bob)>>)}] :
            /\ o["META"] \in {Missing, Unreadable(Text), File(Meta), File(Junk)}
            /\ o["README.rst"] \in {Missing, Unreadable(Text), File(Text)}
            /\ o["README.md"] \in {Missing, File(Text)}
            /\ o["README"] \in {Missing, Unreadable(Text)}
            /\ o["EXTENSION_STATUS"] \in {Missing, Unreadable(Text), File(Approved)}
            /\ o["stewardship"] \in
                   {Missing, UnreadableDir,
                    Dir(<<Link(MemberPath(A1)), Unreadable(Ann), File(Bob)>>)}}

NextOpt ==
    \/ Construct
    \/ AccessMeta
    \/ AccessReadme
    \/ AccessExtensionStatus
    \/ AccessStewards
    \/ AccessProjectLead

SpecOpt == InitOpt /\ [][NextOpt]_vars

-----------------------------------------------------------------------------
(* Claims about the optional files, checked under SpecOpt *)

Denied(node) == node.kind # "missing" /\ node.mode = "EACCES"

\* C5: reading an optional file of the project, an error other than "not
\* found" is raised to the caller; only "not found" gives the absent default.
C5_OnlyNotFoundIsAbsent ==
    /\ (out.op = "meta" /\ Denied(opt["META"])) => out.status = "IOError"
    /\ (out.op = "meta" /\ opt["META"] = Missing) => (out.status = "ok" /\ out.value = <<>>)
    /\ (out.op = "readme" /\ \E n \in Range(ReadmeChoices) : Denied(opt[n]))
           => out.status = "IOError"
    /\ (out.op = "readme" /\ \A n \in Range(ReadmeChoices) : opt[n] = Missing)
           => (out.status = "ok" /\ out.value = None)
    /\ (out.op = "extension_status" /\ Denied(opt["EXTENSION_STATUS"]))
           => out.status = "IOError"
    /\ (out.op = "extension_status" /\ opt["EXTENSION_STATUS"] = Missing)
           => (out.status = "ok" /\ out.value = None)
    /\ (out.op = "stewards" /\ Denied(opt["stewardship"])) => out.status = "IOError"
    /\ (out.op = "stewards" /\ opt["stewardship"] = Missing)
           => (out.status = "ok" /\ out.value = <<>>)
    /\ (out.op = "project_lead" /\ Denied(lead)) => out.status = "IOError"
    /\ (out.op = "project_lead" /\ lead = Missing) => (out.status = "ok" /\ out.value = None)

-----------------------------------------------------------------------------
(* The parser on its own: every stream of at most MaxBytes bytes *)

MimeAlphabet == {"k", ":", " ", "\n"}

InitMime ==
    /\ stream \in SeqsUpTo(MimeAlphabet, MaxBytes)
    /\ mime = Unread
    /\ listing = <<>>
    /\ content = <<>>
    /\ extra = Missing
    /\ lead = Missing
    /\ opt = NoOptional
    /\ mv = Unbuilt
    /\ sponsor = EmptyIndex
    /\ proj = [slot \in Slots |-> Unset]
    /\ out = NoOut

ReadMime ==
    /\ mime.status = "unread"
    /\ mime' = read_mime(stream)
    /\ UNCHANGED <<stream, fs, mv, sponsor, proj, out>>

NextMime == ReadMime

SpecMime == InitMime /\ [][NextMime]_vars

-----------------------------------------------------------------------------
(* Claims about the parser, checked under SpecMime *)

\* the decoded lines of the header section of f: those before the first blank
\* line or the end of the stream
RECURSIVE HeaderSection(_, _)
HeaderSection(f, pos) ==
    LET raw == RawLine(f, pos)
        line == DecodedLine(raw)
    IN  IF line = <<>> THEN <<>> ELSE <<line>> \o HeaderSection(f, pos + Len(raw))

HasColon(line) == \E i \in 1..Len(line) : line[i] = ":"

\* C6: every non-blank header-section line that begins with whitespace is a
\* continuation and adds no header entry, whatever it contains, so a parsed
\* record whose header section starts with a key:value line has as many
\* headers as that section has lines that do not begin with whitespace.
C6_ContinuationAddsNoHeader ==
    LET lines == HeaderSection(stream, 1)
    IN  (/\ mime.status = "ok"
         /\ lines # <<>>
         /\ lines[1][1] \notin WS)
            => Len(mime.headers) =
                   Cardinality({i \in DOMAIN lines : lines[i][1] \notin WS})

\* C7: read_mime returns or fails with ValueError, and it fails exactly when
\* the header section holds a line that is neither a key:value line nor a
\* continuation of a header appended before it; nothing else is raised.
C7_OnlyFormatError ==
    LET lines == HeaderSection(stream, 1)
        Malformed(i) ==
            /\ ~HasColon(lines[i])
            /\ ~(lines[i][1] \in WS /\ \E j \in 1..(i - 1) : HasColon(lines[j]))
    IN  mime.status # "unread" =>
            /\ mime.status \in {"ok", "ValueError"}
            /\ mime.status = "ValueError" <=> \E i \in DOMAIN lines : Malformed(i)

=============================================================================
